---- MODULE Spec2Model ----
(***************************************************************************)
(* APPR (Air Passenger Protection Rights) validation engine.               *)
(*                                                                         *)
(* Model of APPRValidator.validate_appr_request and the rule handlers it   *)
(* dispatches to (src/appr_validator.py), of the jurisdiction registry     *)
(* (src/canadian_airports.py) and of the request/result records            *)
(* (src/models.py), as called by the /validate-appr endpoint (src/main.py).*)
(*                                                                         *)
(* Representation.                                                         *)
(*  - Text that the code transforms (airport codes, booking class) is a    *)
(*    sequence of one-character strings, so that upper()/lower() are       *)
(*    computed character by character.                                     *)
(*  - Durations are whole, non-negative hours.  Every threshold the code   *)
(*    compares a duration with (2, 3, 4, 6, 8, 9) is an integer, and the   *)
(*    only other test is Python truthiness (0 is falsy), so a fractional   *)
(*    duration x takes the same branches as floor(x) when x >= 1, and as 1 *)
(*    when 0 < x < 1.                                                      *)
(*  - An Optional value is None (the empty sequence) or <<v>>.             *)
(*  - Money: ticket_price is in whole dollars, compensation_amount is in   *)
(*    cents, so that ticket_price * 0.75 is an integer (price * 75).       *)
(*  - The obligation and note lists are sequences of the strings the code  *)
(*    appends; an f-string keeps its placeholder in braces.                *)
(***************************************************************************)
EXTENDS Integers, Sequences, FiniteSets, TLC

VARIABLES
    pc,          \* position of the /validate-appr endpoint: idle, rejected, responded
    request,     \* the APPRValidationRequest being processed (None when idle)
    response,    \* the (is_applicable, reason, compensation_result) triple returned
    carrier_type, \* APPRValidator.carrier_type, set by __init__
    heap,        \* the list objects owned by the CompensationResult objects alive
    calls        \* per caller: the frame of its validate_appr_request call

vars == <<pc, request, response, carrier_type, heap, calls>>

\* Python None: an absent Optional field, and the request and response slots
\* of the endpoint while no request is being processed.
None == <<>>

----------------------------------------------------------------------------
(* Python str.upper(), str.lower(), str.isalpha() on ASCII letters.         *)

LowerLetters ==
    <<"a","b","c","d","e","f","g","h","i","j","k","l","m",
      "n","o","p","q","r","s","t","u","v","w","x","y","z">>

UpperLetters ==
    <<"A","B","C","D","E","F","G","H","I","J","K","L","M",
      "N","O","P","Q","R","S","T","U","V","W","X","Y","Z">>

UpperChar(c) ==
    IF \E i \in DOMAIN LowerLetters : LowerLetters[i] = c
    THEN UpperLetters[CHOOSE i \in DOMAIN LowerLetters : LowerLetters[i] = c]
    ELSE c

LowerChar(c) ==
    IF \E i \in DOMAIN UpperLetters : UpperLetters[i] = c
    THEN LowerLetters[CHOOSE i \in DOMAIN UpperLetters : UpperLetters[i] = c]
    ELSE c

Upper(s) == [i \in DOMAIN s |-> UpperChar(s[i])]

Lower(s) == [i \in DOMAIN s |-> LowerChar(s[i])]

IsAlpha(s) ==
    /\ Len(s) > 0
    /\ \A i \in DOMAIN s :
          \/ \E k \in DOMAIN LowerLetters : LowerLetters[k] = s[i]
          \/ \E k \in DOMAIN UpperLetters : UpperLetters[k] = s[i]

----------------------------------------------------------------------------
(* src/canadian_airports.py                                                 *)

CANADIAN_AIRPORTS ==
    {
      <<"Y","Y","Z">>, <<"Y","V","R">>, <<"Y","U","L">>, <<"Y","Y","C">>,
      <<"Y","W","G">>, <<"Y","O","W">>, <<"Y","H","Z">>, <<"Y","E","G">>,
      <<"Y","Q","B">>, <<"Y","X","E">>, <<"Y","Y","J">>, <<"Y","K","F">>,
      <<"Y","H","M">>, <<"Y","F","B">>, <<"Y","X","Y">>, <<"Y","Z","F">>,
      <<"Y","Q","R">>, <<"Y","Q","T">>, <<"Y","S","J">>, <<"Y","F","C">>,
      <<"Y","Q","M">>, <<"Y","Q","X">>, <<"Y","Y","T">>, <<"Y","X","U">>,
      <<"Y","K","A">>, <<"Y","P","G">>, <<"Y","Q","U">>, <<"Y","M","M">>,
      <<"Y","L","W">>, <<"Y","X","S">>, <<"Y","B","R">>, <<"Y","T","S">>,
      <<"Y","S","B">>, <<"Y","A","M">>, <<"Y","Q","K">>, <<"Y","Z","P">>,
      <<"Y","C","D">>, <<"Y","C","A">>, <<"Y","P","W">>, <<"Y","X","J">>,
      <<"Y","D","Q">>, <<"Y","F","O">>, <<"Y","T","H">>, <<"Y","C","G">>,
      <<"Y","X","C">>, <<"Y","U","X">>, <<"Y","R","T">>, <<"Y","B","K">>,
      <<"Y","G","Z">>, <<"Y","E","V">>, <<"Y","A","T">>, <<"Y","M","O">>,
      <<"Y","P","H">>, <<"Y","W","P">>, <<"Y","H","O">>, <<"Y","H","R">>,
      <<"Y","E","R">>, <<"Y","Z","S">>
    }

is_canadian_airport(airport_code) == Upper(airport_code) \in CANADIAN_AIRPORTS

----------------------------------------------------------------------------
(* src/models.py                                                            *)

DisruptionType ==
    {"delay", "cancellation", "denied_boarding", "tarmac_delay", "downgrade", "baggage_issue"}

DisruptionCategory ==
    {"within_carrier_control", "within_carrier_control_safety", "outside_carrier_control"}

PassengerType == {"regular", "minor", "disability"}

\* Optional[T]: None, or <<v>> for the value v.
Absent == None

Some(v) == <<v>>

IsNone(x) == x = None

Val(x) == x[1]

\* Python truthiness of an Optional number: None and 0 are falsy.
Truthy(x) == ~IsNone(x) /\ Val(x) # 0

\* FlightInfo.validate_airport_codes: rejects, or stores the code upper-cased.
AirportCodeOk(v) == ~(Len(v) # 3 \/ ~IsAlpha(v))

validate_airport_codes(v) == Upper(v)

CompensationResult(eligible) ==
    [ eligible_for_compensation |-> eligible,
      compensation_amount      |-> 0,
      care_obligations         |-> <<>>,
      rebooking_rights         |-> <<>>,
      refund_rights            |-> <<>>,
      compliance_notes         |-> <<>>,
      alternative_arrangements |-> <<>> ]

----------------------------------------------------------------------------
(* src/appr_validator.py                                                    *)

\* Amounts in cents.
LARGE_CARRIER_COMPENSATION ==
    ( "3_to_6_hours"                       :> 40000 ) @@
    ( "6_to_9_hours"                       :> 70000 ) @@
    ( "9_plus_hours"                       :> 100000 ) @@
    ( "denied_boarding_domestic"           :> 90000 ) @@
    ( "denied_boarding_international"      :> 180000 ) @@
    ( "denied_boarding_international_long" :> 240000 )

Note(result, text) ==
    [result EXCEPT !.compliance_notes = Append(@, text)]

\* DelayTier with each boundary given to the lower tier.
DelayTier_upper_inclusive(delay_hours) ==
    IF 3 < delay_hours /\ delay_hours <= 6
    THEN LARGE_CARRIER_COMPENSATION["3_to_6_hours"]
    ELSE IF 6 < delay_hours /\ delay_hours <= 9
    THEN LARGE_CARRIER_COMPENSATION["6_to_9_hours"]
    ELSE IF delay_hours > 9
    THEN LARGE_CARRIER_COMPENSATION["9_plus_hours"]
    ELSE LARGE_CARRIER_COMPENSATION["3_to_6_hours"]

\* Lines 112-117: the tier of a delay of at least 3 hours.
DelayTier(delay_hours) ==
    IF 3 <= delay_hours /\ delay_hours < 6
    THEN LARGE_CARRIER_COMPENSATION["3_to_6_hours"]
    ELSE IF 6 <= delay_hours /\ delay_hours < 9
    THEN LARGE_CARRIER_COMPENSATION["6_to_9_hours"]
    ELSE LARGE_CARRIER_COMPENSATION["9_plus_hours"]

_handle_delay(req) ==
    LET result == CompensationResult(FALSE)
        disruption == req.disruption_event
    IN  IF ~Truthy(disruption.delay_duration_hours)
        THEN Note(result, "Delay duration not specified")
        ELSE
        LET delay_hours == Val(disruption.delay_duration_hours)
        IN  IF delay_hours < 3
            THEN Note(result, "Delay of {delay_hours} hours is under 3-hour threshold - no compensation required")
            ELSE IF disruption.disruption_category = "outside_carrier_control"
            THEN Note(result, "Delay outside carrier control - no monetary compensation required")
            ELSE IF disruption.disruption_category = "within_carrier_control_safety"
            THEN Note(result, "Delay within carrier control but required for safety - no monetary compensation required")
            ELSE IF disruption.disruption_category = "within_carrier_control"
            THEN Note([result EXCEPT
                         !.eligible_for_compensation = TRUE,
                         !.compensation_amount = DelayTier(delay_hours)],
                      "Delay of {delay_hours} hours within carrier control - compensation required")
            ELSE result

\* AdvanceNoticeGiven with the 14th day excluded.
AdvanceNoticeGiven_over_14(disruption) ==
    /\ Truthy(disruption.cancellation_notice_days)
    /\ Val(disruption.cancellation_notice_days) > 14

\* Line 129: 14-day advance notice was given.
AdvanceNoticeGiven(disruption) ==
    /\ Truthy(disruption.cancellation_notice_days)
    /\ Val(disruption.cancellation_notice_days) >= 14

\* Line 147: the delay to the alternative flight, "delay_duration_hours or 0".
AlternativeFlightDelay(disruption) ==
    IF Truthy(disruption.delay_duration_hours)
    THEN Val(disruption.delay_duration_hours)
    ELSE 0

\* CancellationTier with the delay handler's rule below 3 hours: not eligible.
CancellationTier_ineligible_below_3(result, delay_hours) ==
    IF delay_hours < 3
    THEN Note([result EXCEPT !.eligible_for_compensation = FALSE,
                             !.compensation_amount = 0],
              "Alternative flight within 3 hours - no compensation required")
    ELSE IF 3 <= delay_hours /\ delay_hours < 6
    THEN [result EXCEPT !.compensation_amount = LARGE_CARRIER_COMPENSATION["3_to_6_hours"]]
    ELSE IF 6 <= delay_hours /\ delay_hours < 9
    THEN [result EXCEPT !.compensation_amount = LARGE_CARRIER_COMPENSATION["6_to_9_hours"]]
    ELSE [result EXCEPT !.compensation_amount = LARGE_CARRIER_COMPENSATION["9_plus_hours"]]

\* Lines 149-157: amount (and note) by the delay to the alternative flight.
CancellationTier(result, delay_hours) ==
    IF delay_hours < 3
    THEN Note([result EXCEPT !.compensation_amount = 0],
              "Alternative flight within 3 hours - no compensation required")
    ELSE IF 3 <= delay_hours /\ delay_hours < 6
    THEN [result EXCEPT !.compensation_amount = LARGE_CARRIER_COMPENSATION["3_to_6_hours"]]
    ELSE IF 6 <= delay_hours /\ delay_hours < 9
    THEN [result EXCEPT !.compensation_amount = LARGE_CARRIER_COMPENSATION["6_to_9_hours"]]
    ELSE [result EXCEPT !.compensation_amount = LARGE_CARRIER_COMPENSATION["9_plus_hours"]]

\* _handle_cancellation with the safety test left out and every category
\* that is not outside carrier control compensated.
_handle_cancellation_safety_paid(req) ==
    LET result == CompensationResult(FALSE)
        disruption == req.disruption_event
    IN  IF AdvanceNoticeGiven(disruption)
        THEN Note(result, "Cancellation with 14+ days notice - no compensation required")
        ELSE IF disruption.disruption_category = "outside_carrier_control"
        THEN Note(result, "Cancellation outside carrier control - no monetary compensation required")
        ELSE Note(CancellationTier([result EXCEPT !.eligible_for_compensation = TRUE],
                                   AlternativeFlightDelay(disruption)),
                  "Cancellation within carrier control - compensation based on {delay_hours} hour delay to alternative flight")

_handle_cancellation(req) ==
    LET result == CompensationResult(FALSE)
        disruption == req.disruption_event
    IN  IF AdvanceNoticeGiven(disruption)
        THEN Note(result, "Cancellation with 14+ days notice - no compensation required")
        ELSE IF disruption.disruption_category = "outside_carrier_control"
        THEN Note(result, "Cancellation outside carrier control - no monetary compensation required")
        ELSE IF disruption.disruption_category = "within_carrier_control_safety"
        THEN Note(result, "Cancellation within carrier control but required for safety - no monetary compensation required")
        ELSE IF disruption.disruption_category = "within_carrier_control"
        THEN Note(CancellationTier([result EXCEPT !.eligible_for_compensation = TRUE],
                                   AlternativeFlightDelay(disruption)),
                  "Cancellation within carrier control - compensation based on {delay_hours} hour delay to alternative flight")
        ELSE result

\* _handle_denied_boarding paying the short-haul international rate.
_handle_denied_boarding_short_haul(req) ==
    LET result == CompensationResult(TRUE)
        flight == req.flight_info
        is_international == ~(is_canadian_airport(flight.departure_airport)
                              /\ is_canadian_airport(flight.arrival_airport))
    IN  IF ~is_international
        THEN Note([result EXCEPT !.compensation_amount =
                       LARGE_CARRIER_COMPENSATION["denied_boarding_domestic"]],
                  "Denied boarding on domestic flight")
        ELSE Note([result EXCEPT !.compensation_amount =
                       LARGE_CARRIER_COMPENSATION["denied_boarding_international"]],
                  "Denied boarding on international flight")

_handle_denied_boarding(req) ==
    LET result == CompensationResult(TRUE)
        flight == req.flight_info
        is_international == ~(is_canadian_airport(flight.departure_airport)
                              /\ is_canadian_airport(flight.arrival_airport))
    IN  IF ~is_international
        THEN Note([result EXCEPT !.compensation_amount =
                       LARGE_CARRIER_COMPENSATION["denied_boarding_domestic"]],
                  "Denied boarding on domestic flight")
        ELSE Note([result EXCEPT !.compensation_amount =
                       LARGE_CARRIER_COMPENSATION["denied_boarding_international_long"]],
                  "Denied boarding on international flight")

\* _handle_tarmac_delay with the delay handler's notes assigned to, instead of
\* appended to, the tarmac notes.
_handle_tarmac_delay_replacing_notes(req) ==
    LET result == CompensationResult(FALSE)
        disruption == req.disruption_event
    IN  IF ~Truthy(disruption.tarmac_delay_hours)
        THEN Note(result, "Tarmac delay duration not specified")
        ELSE
        LET tarmac_hours == Val(disruption.tarmac_delay_hours)
            disembark ==
                IF tarmac_hours >= 4
                THEN [Note(result, "Tarmac delay of 4+ hours requires mandatory disembarkation")
                        EXCEPT !.alternative_arrangements =
                          Append(@, "Passenger disembarkation required after 4 hours on tarmac")]
                ELSE result
        IN  IF Truthy(disruption.delay_duration_hours)
            THEN LET delay_result == _handle_delay(req)
                 IN  [disembark EXCEPT
                        !.eligible_for_compensation = delay_result.eligible_for_compensation,
                        !.compensation_amount = delay_result.compensation_amount,
                        !.compliance_notes = delay_result.compliance_notes]
            ELSE disembark

\* _handle_tarmac_delay requiring disembarkation only after more than 4 hours.
_handle_tarmac_delay_over_4(req) ==
    LET result == CompensationResult(FALSE)
        disruption == req.disruption_event
    IN  IF ~Truthy(disruption.tarmac_delay_hours)
        THEN Note(result, "Tarmac delay duration not specified")
        ELSE
        LET tarmac_hours == Val(disruption.tarmac_delay_hours)
            disembark ==
                IF tarmac_hours > 4
                THEN [Note(result, "Tarmac delay of 4+ hours requires mandatory disembarkation")
                        EXCEPT !.alternative_arrangements =
                          Append(@, "Passenger disembarkation required after 4 hours on tarmac")]
                ELSE result
        IN  IF Truthy(disruption.delay_duration_hours)
            THEN LET delay_result == _handle_delay(req)
                 IN  [disembark EXCEPT
                        !.eligible_for_compensation = delay_result.eligible_for_compensation,
                        !.compensation_amount = delay_result.compensation_amount,
                        !.compliance_notes = @ \o delay_result.compliance_notes]
            ELSE disembark

_handle_tarmac_delay(req) ==
    LET result == CompensationResult(FALSE)
        disruption == req.disruption_event
    IN  IF ~Truthy(disruption.tarmac_delay_hours)
        THEN Note(result, "Tarmac delay duration not specified")
        ELSE
        LET tarmac_hours == Val(disruption.tarmac_delay_hours)
            disembark ==
                IF tarmac_hours >= 4
                THEN [Note(result, "Tarmac delay of 4+ hours requires mandatory disembarkation")
                        EXCEPT !.alternative_arrangements =
                          Append(@, "Passenger disembarkation required after 4 hours on tarmac")]
                ELSE result
        IN  IF Truthy(disruption.delay_duration_hours)
            THEN LET delay_result == _handle_delay(req)
                 IN  [disembark EXCEPT
                        !.eligible_for_compensation = delay_result.eligible_for_compensation,
                        !.compensation_amount = delay_result.compensation_amount,
                        !.compliance_notes = @ \o delay_result.compliance_notes]
            ELSE disembark

\* _handle_downgrade comparing the booking class without lower().
_handle_downgrade_case_sensitive(req) ==
    LET result == CompensationResult(TRUE)
        passenger == req.passenger_info
    IN  Note([result EXCEPT !.compensation_amount =
                 IF passenger.booking_class \in
                        { <<"b","u","s","i","n","e","s","s">>, <<"f","i","r","s","t">> }
                 THEN passenger.ticket_price * 75
                 ELSE passenger.ticket_price * 50],
             "Service downgrade from {passenger.booking_class} class")

_handle_downgrade(req) ==
    LET result == CompensationResult(TRUE)
        passenger == req.passenger_info
    IN  Note([result EXCEPT !.compensation_amount =
                 IF Lower(passenger.booking_class) \in
                        { <<"b","u","s","i","n","e","s","s">>, <<"f","i","r","s","t">> }
                 THEN passenger.ticket_price * 75
                 ELSE passenger.ticket_price * 50],
             "Service downgrade from {passenger.booking_class} class")

\* _handle_baggage_issue without the essential-items arrangement.
_handle_baggage_issue_note_only(req) ==
    LET result == CompensationResult(FALSE)
    IN  Note(result, "Baggage issue - carrier must reimburse reasonable interim expenses")

_handle_baggage_issue(req) ==
    LET result == CompensationResult(FALSE)
    IN  [Note(result, "Baggage issue - carrier must reimburse reasonable interim expenses")
           EXCEPT !.alternative_arrangements =
             Append(@, "Reimbursement for essential items while baggage is delayed")]

\* _add_care_obligations limiting care outside carrier control to communication.
_add_care_obligations_limited_outside(req, result) ==
    LET disruption == req.disruption_event
        delay_hours ==
            IF Truthy(disruption.delay_duration_hours)
            THEN Val(disruption.delay_duration_hours)
            ELSE IF Truthy(disruption.tarmac_delay_hours)
            THEN Val(disruption.tarmac_delay_hours)
            ELSE 0
        full == disruption.disruption_category # "outside_carrier_control"
        communication ==
            IF delay_hours >= 2
            THEN <<"Communication: Provide updates on delay status and passenger rights">>
            ELSE <<>>
        food ==
            IF delay_hours >= 3 /\ full
            THEN <<"Food and drink: Provide meals and refreshments">>
            ELSE <<>>
        overnight ==
            IF delay_hours >= 8 /\ full
            THEN <<"Accommodation: Provide overnight accommodation if required",
                   "Transportation: Provide transport between airport and accommodation">>
            ELSE <<>>
    IN  [result EXCEPT !.care_obligations = @ \o communication \o food \o overnight]

_add_care_obligations(req, result) ==
    LET disruption == req.disruption_event
        delay_hours ==
            IF Truthy(disruption.delay_duration_hours)
            THEN Val(disruption.delay_duration_hours)
            ELSE IF Truthy(disruption.tarmac_delay_hours)
            THEN Val(disruption.tarmac_delay_hours)
            ELSE 0
        communication ==
            IF delay_hours >= 2
            THEN <<"Communication: Provide updates on delay status and passenger rights">>
            ELSE <<>>
        food ==
            IF delay_hours >= 3
            THEN <<"Food and drink: Provide meals and refreshments">>
            ELSE <<>>
        overnight ==
            IF delay_hours >= 8
            THEN <<"Accommodation: Provide overnight accommodation if required",
                   "Transportation: Provide transport between airport and accommodation">>
            ELSE <<>>
    IN  [result EXCEPT !.care_obligations = @ \o communication \o food \o overnight]

\* _add_rebooking_refund_rights granting the delay rights to tarmac delays too.
_add_rebooking_refund_rights_tarmac_too(req, result) ==
    LET disruption == req.disruption_event
        first ==
            IF disruption.disruption_type \in {"delay", "cancellation", "tarmac_delay"}
            THEN [result EXCEPT
                    !.rebooking_rights =
                        Append(@, "Right to rebooking on next available flight at no additional cost"),
                    !.refund_rights =
                        Append(@, "Right to refund if passenger chooses not to travel")]
            ELSE result
    IN  IF disruption.disruption_type = "denied_boarding"
        THEN [first EXCEPT
                !.rebooking_rights = Append(@, "Right to alternative flight or rebooking"),
                !.refund_rights = Append(@, "Right to full refund if alternative not acceptable")]
        ELSE first

_add_rebooking_refund_rights(req, result) ==
    LET disruption == req.disruption_event
        first ==
            IF disruption.disruption_type \in {"delay", "cancellation"}
            THEN [result EXCEPT
                    !.rebooking_rights =
                        Append(@, "Right to rebooking on next available flight at no additional cost"),
                    !.refund_rights =
                        Append(@, "Right to refund if passenger chooses not to travel")]
            ELSE result
    IN  IF disruption.disruption_type = "denied_boarding"
        THEN [first EXCEPT
                !.rebooking_rights = Append(@, "Right to alternative flight or rebooking"),
                !.refund_rights = Append(@, "Right to full refund if alternative not acceptable")]
        ELSE first

\* _add_special_passenger_rights assigning, instead of appending, the minor's
\* note and care entry.
_add_special_passenger_rights_overwriting(req, result) ==
    LET passenger == req.passenger_info
        minor ==
            IF passenger.passenger_type = "minor"
            THEN [result EXCEPT
                    !.compliance_notes = <<"Minor passenger - enhanced care obligations apply">>,
                    !.care_obligations = <<"Special assistance for unaccompanied minors">>]
            ELSE result
    IN  IF passenger.has_disability \/ passenger.passenger_type = "disability"
        THEN [Note(minor, "Passenger with disability - enhanced protections apply")
                EXCEPT !.care_obligations =
                         Append(@, "Assistance appropriate to passenger's disability"),
                       !.alternative_arrangements =
                         Append(@, "Priority rebooking for passengers with disabilities")]
        ELSE minor

\* _add_special_passenger_rights with the disability test as a conjunction.
_add_special_passenger_rights_both_needed(req, result) ==
    LET passenger == req.passenger_info
        minor ==
            IF passenger.passenger_type = "minor"
            THEN [Note(result, "Minor passenger - enhanced care obligations apply")
                    EXCEPT !.care_obligations =
                      Append(@, "Special assistance for unaccompanied minors")]
            ELSE result
    IN  IF passenger.has_disability /\ passenger.passenger_type = "disability"
        THEN [Note(minor, "Passenger with disability - enhanced protections apply")
                EXCEPT !.care_obligations =
                         Append(@, "Assistance appropriate to passenger's disability"),
                       !.alternative_arrangements =
                         Append(@, "Priority rebooking for passengers with disabilities")]
        ELSE minor

_add_special_passenger_rights(req, result) ==
    LET passenger == req.passenger_info
        minor ==
            IF passenger.passenger_type = "minor"
            THEN [Note(result, "Minor passenger - enhanced care obligations apply")
                    EXCEPT !.care_obligations =
                      Append(@, "Special assistance for unaccompanied minors")]
            ELSE result
    IN  IF passenger.has_disability \/ passenger.passenger_type = "disability"
        THEN [Note(minor, "Passenger with disability - enhanced protections apply")
                EXCEPT !.care_obligations =
                         Append(@, "Assistance appropriate to passenger's disability"),
                       !.alternative_arrangements =
                         Append(@, "Priority rebooking for passengers with disabilities")]
        ELSE minor

\* The handler the disruption type dispatches to.
Dispatch(req) ==
    LET disruption == req.disruption_event
    IN  IF disruption.disruption_type = "delay" THEN _handle_delay(req)
        ELSE IF disruption.disruption_type = "cancellation" THEN _handle_cancellation(req)
        ELSE IF disruption.disruption_type = "denied_boarding" THEN _handle_denied_boarding(req)
        ELSE IF disruption.disruption_type = "tarmac_delay" THEN _handle_tarmac_delay(req)
        ELSE IF disruption.disruption_type = "downgrade" THEN _handle_downgrade(req)
        ELSE IF disruption.disruption_type = "baggage_issue" THEN _handle_baggage_issue(req)
        ELSE CompensationResult(FALSE)

\* _calculate_compensation_and_rights consulting weather_related: a
\* weather-related disruption is handed to no handler.
_calculate_compensation_and_rights_weather_excused(req) ==
    _add_special_passenger_rights(req,
        _add_rebooking_refund_rights(req,
            _add_care_obligations(req,
                IF req.disruption_event.weather_related
                THEN CompensationResult(FALSE)
                ELSE Dispatch(req))))

_calculate_compensation_and_rights(req) ==
    _add_special_passenger_rights(req,
        _add_rebooking_refund_rights(req,
            _add_care_obligations(req, Dispatch(req))))

\* validate_appr_request with the gate on the arrival airport.
validate_appr_request_gate_on_arrival(req) ==
    IF ~is_canadian_airport(req.flight_info.arrival_airport)
    THEN [ is_appr_applicable |-> FALSE,
           appr_eligibility_reason |->
               "APPR does not apply - flight departs from {departure_airport} (non-Canadian airport)",
           compensation_result |-> CompensationResult(FALSE) ]
    ELSE [ is_appr_applicable |-> TRUE,
           appr_eligibility_reason |->
               "APPR applies - flight departs from Canadian airport {departure_airport}",
           compensation_result |-> _calculate_compensation_and_rights(req) ]

validate_appr_request(req) ==
    IF ~is_canadian_airport(req.flight_info.departure_airport)
    THEN [ is_appr_applicable |-> FALSE,
           appr_eligibility_reason |->
               "APPR does not apply - flight departs from {departure_airport} (non-Canadian airport)",
           compensation_result |-> CompensationResult(FALSE) ]
    ELSE [ is_appr_applicable |-> TRUE,
           appr_eligibility_reason |->
               "APPR applies - flight departs from Canadian airport {departure_airport}",
           compensation_result |-> _calculate_compensation_and_rights(req) ]

----------------------------------------------------------------------------
(* Requests the endpoint can receive.                                       *)

MaxDelayHours == 9

MaxNoticeDays == 14

\* Airport codes as sent by the client, before validate_airport_codes.
RawDepartureAirports == { <<"y","y","z">>, <<"L","A","X">> }

RawArrivalAirports == { <<"Y","V","R">>, <<"l","a","x">> }

MalformedAirports == { <<"Y","Y">>, <<"Y","1","Z">> }

DelayDurations == {Absent} \cup {Some(h) : h \in 0..MaxDelayHours}

TarmacDurations == {Absent} \cup {Some(h) : h \in {0, 3, 4, 8}}

NoticeDays == {Absent} \cup {Some(d) : d \in {0} \cup 13..MaxNoticeDays}

TicketPrices == {-200, 500}

BookingClasses ==
    { <<"e","c","o","n","o","m","y">>,
      <<"B","u","s","i","n","e","s","s">>,
      <<"F","I","R","S","T">> }

PassengerInfos ==
    [ passenger_type : PassengerType,
      has_disability : BOOLEAN,
      ticket_price   : TicketPrices,
      booking_class  : BookingClasses ]

DisruptionEvents ==
    [ disruption_type          : DisruptionType,
      disruption_category      : DisruptionCategory,
      delay_duration_hours     : DelayDurations,
      cancellation_notice_days : NoticeDays,
      tarmac_delay_hours       : TarmacDurations ]

----------------------------------------------------------------------------
(* The objects behind an evaluation.  A CompensationResult holds five list
   objects and the passes of _calculate_compensation_and_rights extend them
   in place, so the identity of a list matters as well as its content: the
   heap maps the identity of each list object alive to its content.         *)

\* Clients whose requests are evaluated on the module-level validator.
Callers == {"a", "b"}

\* The list-valued fields of CompensationResult, in declaration order.
ListFields ==
    << "care_obligations", "rebooking_rights", "refund_rights",
       "compliance_notes", "alternative_arrangements" >>

\* Identities of list objects.  A call holds one CompensationResult at a time.
ListIds == 1..(Len(ListFields) * Cardinality(Callers))

\* The identities of the k-th CompensationResult's lists.
Block(k) == [ n \in 1..Len(ListFields) |-> Len(ListFields) * (k - 1) + n ]

Ids(block) == { block[n] : n \in DOMAIN block }

\* The first block none of whose lists is alive.
FreshBlock(h) ==
    Block(CHOOSE k \in 1..Cardinality(Callers) :
              /\ Ids(Block(k)) \cap h.used = {}
              /\ \A j \in 1..(k - 1) : Ids(Block(j)) \cap h.used # {})

\* A CompensationResult object: its scalar fields and the identities of its lists.
Object(eligible, block) ==
    [ eligible_for_compensation |-> eligible,
      compensation_amount      |-> 0,
      care_obligations         |-> block[1],
      rebooking_rights         |-> block[2],
      refund_rights            |-> block[3],
      compliance_notes         |-> block[4],
      alternative_arrangements |-> block[5] ]

\* CompensationResult(...) handing every object the same five lists, as a
\* mutable default shared by all instances would.
NewResult_shared_lists(h, eligible) ==
    [ heap   |-> [h EXCEPT !.used = @ \cup Ids(Block(1))],
      object |-> Object(eligible, Block(1)) ]

\* CompensationResult(eligible_for_compensation=eligible): default_factory=list
\* builds five new empty lists for the object.
NewResult(h, eligible) ==
    LET block == FreshBlock(h)
    IN  [ heap   |-> [ used  |-> h.used \cup Ids(block),
                       cells |-> [ i \in ListIds |->
                                     IF i \in Ids(block) THEN <<>> ELSE h.cells[i] ] ],
          object |-> Object(eligible, block) ]

\* The lists of an object.
ListsOf(object) == { object[ListFields[n]] : n \in DOMAIN ListFields }

\* The value of an object: every list replaced by its content.
Deref(h, object) ==
    [ eligible_for_compensation |-> object.eligible_for_compensation,
      compensation_amount      |-> object.compensation_amount,
      care_obligations         |-> h.cells[object.care_obligations],
      rebooking_rights         |-> h.cells[object.rebooking_rights],
      refund_rights            |-> h.cells[object.refund_rights],
      compliance_notes         |-> h.cells[object.compliance_notes],
      alternative_arrangements |-> h.cells[object.alternative_arrangements] ]

\* In-place update: the lists of the object take the contents held by value.
StoreLists(h, object, value) ==
    [ h EXCEPT !.cells =
        [ i \in ListIds |->
            IF i = object.care_obligations THEN value.care_obligations
            ELSE IF i = object.rebooking_rights THEN value.rebooking_rights
            ELSE IF i = object.refund_rights THEN value.refund_rights
            ELSE IF i = object.compliance_notes THEN value.compliance_notes
            ELSE IF i = object.alternative_arrangements THEN value.alternative_arrangements
            ELSE @[i] ] ]

\* Assignment to the scalar attributes of the object.
StoreScalars(object, value) ==
    [ object EXCEPT !.eligible_for_compensation = value.eligible_for_compensation,
                    !.compensation_amount = value.compensation_amount ]

\* The object is unreachable: its lists are reclaimed.
Reclaim(h, object) ==
    [ used  |-> h.used \ ListsOf(object),
      cells |-> [ i \in ListIds |-> IF i \in ListsOf(object) THEN <<>> ELSE h.cells[i] ] ]

EmptyHeap == [ used |-> {}, cells |-> [ i \in ListIds |-> <<>> ] ]

\* No call of validate_appr_request in progress for the caller.
IdleFrame ==
    [ pc                 |-> "idle",
      request            |-> None,
      is_appr_applicable |-> FALSE,
      appr_reason        |-> "",
      result             |-> None,
      steps              |-> <<>> ]

----------------------------------------------------------------------------
(* The /validate-appr endpoint (src/main.py) around the shared validator.   *)

Init ==
    /\ pc = "idle"
    /\ request = None
    /\ response = None
    /\ carrier_type = "large"
    /\ heap = EmptyHeap
    /\ calls = [ c \in Callers |-> IdleFrame ]

\* The request body fails FlightInfo's field validator: the engine is not called.
RejectRequest ==
    /\ pc = "idle"
    /\ \E dep \in RawDepartureAirports \cup MalformedAirports,
          arr \in RawArrivalAirports \cup MalformedAirports :
          ~(AirportCodeOk(dep) /\ AirportCodeOk(arr))
    /\ pc' = "rejected"
    /\ UNCHANGED <<request, response, carrier_type, heap, calls>>

\* The request body parses into an APPRValidationRequest and the endpoint
\* calls validator.validate_appr_request(request).
validate_appr ==
    /\ pc = "idle"
    /\ \E dep \in RawDepartureAirports \cup MalformedAirports,
          arr \in RawArrivalAirports \cup MalformedAirports :
          /\ AirportCodeOk(dep)
          /\ AirportCodeOk(arr)
          /\ \E flight \in { [ departure_airport |-> validate_airport_codes(dep),
                               arrival_airport   |-> validate_airport_codes(arr) ] },
                passenger \in PassengerInfos,
                disruption \in DisruptionEvents :
                LET req == [ flight_info      |-> flight,
                             passenger_info   |-> passenger,
                             disruption_event |-> disruption ]
                IN  /\ request' = req
                    /\ response' = validate_appr_request(req)
    /\ pc' = "responded"
    /\ UNCHANGED <<carrier_type, heap, calls>>

\* The response (or the validation error) has been sent; the endpoint is
\* ready for the next request.  Nothing of the request is kept.
Finish ==
    /\ pc \in {"responded", "rejected"}
    /\ pc' = "idle"
    /\ request' = None
    /\ response' = None
    /\ UNCHANGED <<carrier_type, heap, calls>>

Next == RejectRequest \/ validate_appr \/ Finish

Spec == Init /\ [][Next]_vars

----------------------------------------------------------------------------
(* The endpoint with every field of the request body, those the engine never
   reads included: flight_number and the four timestamps of FlightInfo,
   minor_age of PassengerInfo, reason and weather_related of DisruptionEvent. *)

EveryFieldDepartureAirports == RawDepartureAirports \cup { <<"Y","U","L">> }

EveryFieldArrivalAirports == RawArrivalAirports \cup { <<"y","u","l">> }

FlightNumbers == {"WS123", "AC456"}

\* datetime values.
Datetimes == {"2024-03-15T08:00", "2024-03-16T21:30"}

EveryFieldFlightInfos(departure_airport, arrival_airport) ==
    [ flight_number       : FlightNumbers,
      departure_airport   : {departure_airport},
      arrival_airport     : {arrival_airport},
      scheduled_departure : Datetimes,
      actual_departure    : {Absent, Some("2024-03-15T12:00")},
      scheduled_arrival   : Datetimes,
      actual_arrival      : {Absent, Some("2024-03-15T15:00")} ]

EveryFieldPassengerInfos ==
    [ passenger_type : {"regular", "minor"},
      minor_age      : {Absent, Some(12)},
      has_disability : {FALSE},
      ticket_price   : {500},
      booking_class  : { <<"B","u","s","i","n","e","s","s">> } ]

EveryFieldDisruptionEvents ==
    [ disruption_type          : DisruptionType,
      disruption_category      : {"within_carrier_control", "outside_carrier_control"},
      delay_duration_hours     : {Absent, Some(5)},
      cancellation_notice_days : {Absent},
      tarmac_delay_hours       : {Absent, Some(4)},
      reason                   : {Absent, Some("crew shortage")},
      weather_related          : BOOLEAN ]

\* The request body parses into an APPRValidationRequest, of which every field
\* is kept, and the endpoint calls validator.validate_appr_request(request).
validate_appr_every_field ==
    /\ pc = "idle"
    /\ \E dep \in EveryFieldDepartureAirports, arr \in EveryFieldArrivalAirports :
          /\ AirportCodeOk(dep)
          /\ AirportCodeOk(arr)
          /\ \E flight \in EveryFieldFlightInfos(validate_airport_codes(dep),
                                                 validate_airport_codes(arr)),
                passenger \in EveryFieldPassengerInfos,
                disruption \in EveryFieldDisruptionEvents :
                LET req == [ flight_info      |-> flight,
                             passenger_info   |-> passenger,
                             disruption_event |-> disruption ]
                IN  /\ request' = req
                    /\ response' = validate_appr_request(req)
    /\ pc' = "responded"
    /\ UNCHANGED <<carrier_type, heap, calls>>

NextEveryField == RejectRequest \/ validate_appr_every_field \/ Finish

SpecEveryField == Init /\ [][NextEveryField]_vars

----------------------------------------------------------------------------
(* validate_appr_request step by step, for several callers of the one
   module-level validator.  The endpoint is a coroutine without suspension
   points, so one event loop runs the calls one after the other; the steps
   of different callers are nevertheless allowed to interleave here, which
   also covers an engine called from several threads.                       *)

\* Requests of the callers: every disruption type, from a Canadian and from a
\* foreign departure airport, for an adult and for a minor.
CallRequests ==
    { [ flight_info      |-> [ departure_airport |-> validate_airport_codes(dep),
                               arrival_airport   |-> <<"Y", "V", "R">> ],
        passenger_info   |-> passenger,
        disruption_event |-> [ disruption_type          |-> kind,
                               disruption_category      |-> "within_carrier_control",
                               delay_duration_hours     |-> Some(5),
                               cancellation_notice_days |-> Absent,
                               tarmac_delay_hours       |-> Some(4) ] ] :
      dep \in RawDepartureAirports,
      passenger \in { p \in PassengerInfos : /\ p.passenger_type \in {"regular", "minor"}
                                             /\ ~p.has_disability
                                             /\ p.ticket_price = 500
                                             /\ p.booking_class = <<"e","c","o","n","o","m","y">> },
      kind \in DisruptionType }

\* The branch of the if/elif chain taken for the request.
DispatchedHandler(req) ==
    LET disruption == req.disruption_event
    IN  IF disruption.disruption_type = "delay" THEN "_handle_delay"
        ELSE IF disruption.disruption_type = "cancellation" THEN "_handle_cancellation"
        ELSE IF disruption.disruption_type = "denied_boarding" THEN "_handle_denied_boarding"
        ELSE IF disruption.disruption_type = "tarmac_delay" THEN "_handle_tarmac_delay"
        ELSE IF disruption.disruption_type = "downgrade" THEN "_handle_downgrade"
        ELSE IF disruption.disruption_type = "baggage_issue" THEN "_handle_baggage_issue"
        ELSE "none"

\* self.<handler>(request)
CallHandler(handler, req) ==
    CASE handler = "_handle_delay"          -> _handle_delay(req)
      [] handler = "_handle_cancellation"   -> _handle_cancellation(req)
      [] handler = "_handle_denied_boarding" -> _handle_denied_boarding(req)
      [] handler = "_handle_tarmac_delay"   -> _handle_tarmac_delay(req)
      [] handler = "_handle_downgrade"      -> _handle_downgrade(req)
      [] handler = "_handle_baggage_issue"  -> _handle_baggage_issue(req)
      [] OTHER                              -> CompensationResult(FALSE)

\* _calculate_compensation_and_rights with the rebooking/refund pass left out.
AfterStep_without_rebooking(step) ==
    IF step = "dispatch" THEN "_add_care_obligations"
    ELSE IF step = "_add_care_obligations" THEN "_add_special_passenger_rights"
    ELSE "returned"

\* The statement that follows a step of _calculate_compensation_and_rights.
AfterStep(step) ==
    IF step = "dispatch" THEN "_add_care_obligations"
    ELSE IF step = "_add_care_obligations" THEN "_add_rebooking_refund_rights"
    ELSE IF step = "_add_rebooking_refund_rights" THEN "_add_special_passenger_rights"
    ELSE "returned"

\* The lists of before, each extended by the entries of content.
Extended(before, content) ==
    [ content EXCEPT !.care_obligations         = before.care_obligations \o @,
                     !.rebooking_rights         = before.rebooking_rights \o @,
                     !.refund_rights            = before.refund_rights \o @,
                     !.compliance_notes         = before.compliance_notes \o @,
                     !.alternative_arrangements = before.alternative_arrangements \o @ ]

\* The endpoint calls validator.validate_appr_request(request) for caller c.
Call(c) ==
    /\ calls[c].pc = "idle"
    /\ \E req \in CallRequests :
          calls' = [calls EXCEPT ![c] = [IdleFrame EXCEPT !.pc = "gate", !.request = req]]
    /\ UNCHANGED <<pc, request, response, carrier_type, heap>>

\* if not is_canadian_airport(departure_airport): return False, reason, a new
\* empty CompensationResult; otherwise appr_reason is set and the call goes on.
Gate(c) ==
    /\ calls[c].pc = "gate"
    /\ \E frame \in {calls[c]} :
          IF ~is_canadian_airport(frame.request.flight_info.departure_airport)
          THEN \E new \in {NewResult(heap, FALSE)} :
                  /\ heap' = new.heap
                  /\ calls' = [calls EXCEPT ![c] =
                         [frame EXCEPT
                            !.pc = "returned",
                            !.is_appr_applicable = FALSE,
                            !.appr_reason = "APPR does not apply - flight departs from {departure_airport} (non-Canadian airport)",
                            !.result = new.object,
                            !.steps = Append(@, "is_canadian_airport")]]
          ELSE /\ heap' = heap
               /\ calls' = [calls EXCEPT ![c] =
                      [frame EXCEPT
                         !.pc = "dispatch",
                         !.is_appr_applicable = TRUE,
                         !.appr_reason = "APPR applies - flight departs from Canadian airport {departure_airport}",
                         !.steps = Append(@, "is_canadian_airport")]]
    /\ UNCHANGED <<pc, request, response, carrier_type>>

\* The if/elif chain: the handler of the disruption type builds the result
\* object.  (The default result built before the chain is dropped here: each
\* of the six types replaces it.)
RunHandler(c) ==
    /\ calls[c].pc = "dispatch"
    /\ \E frame \in {calls[c]}, new \in {NewResult(heap, FALSE)} :
       \E handler \in {DispatchedHandler(frame.request)} :
       \E value \in {Extended(Deref(new.heap, new.object),
                              CallHandler(handler, frame.request))} :
          /\ heap' = StoreLists(new.heap, new.object, value)
          /\ calls' = [calls EXCEPT ![c] =
                 [frame EXCEPT !.pc = AfterStep("dispatch"),
                               !.result = StoreScalars(new.object, value),
                               !.steps = Append(@, handler)]]
    /\ UNCHANGED <<pc, request, response, carrier_type>>

\* self._add_care_obligations(request, result): extends the lists of result.
CarePass(c) ==
    /\ calls[c].pc = "_add_care_obligations"
    /\ \E frame \in {calls[c]} :
       \E value \in {_add_care_obligations(frame.request, Deref(heap, frame.result))} :
          /\ heap' = StoreLists(heap, frame.result, value)
          /\ calls' = [calls EXCEPT ![c] =
                 [frame EXCEPT !.pc = AfterStep("_add_care_obligations"),
                               !.result = StoreScalars(@, value),
                               !.steps = Append(@, "_add_care_obligations")]]
    /\ UNCHANGED <<pc, request, response, carrier_type>>

\* self._add_rebooking_refund_rights(request, result)
RebookingRefundPass(c) ==
    /\ calls[c].pc = "_add_rebooking_refund_rights"
    /\ \E frame \in {calls[c]} :
       \E value \in {_add_rebooking_refund_rights(frame.request, Deref(heap, frame.result))} :
          /\ heap' = StoreLists(heap, frame.result, value)
          /\ calls' = [calls EXCEPT ![c] =
                 [frame EXCEPT !.pc = AfterStep("_add_rebooking_refund_rights"),
                               !.result = StoreScalars(@, value),
                               !.steps = Append(@, "_add_rebooking_refund_rights")]]
    /\ UNCHANGED <<pc, request, response, carrier_type>>

\* self._add_special_passenger_rights(request, result), then return result
\* and return True, appr_reason, compensation_result.
SpecialPassengerPass(c) ==
    /\ calls[c].pc = "_add_special_passenger_rights"
    /\ \E frame \in {calls[c]} :
       \E value \in {_add_special_passenger_rights(frame.request, Deref(heap, frame.result))} :
          /\ heap' = StoreLists(heap, frame.result, value)
          /\ calls' = [calls EXCEPT ![c] =
                 [frame EXCEPT !.pc = AfterStep("_add_special_passenger_rights"),
                               !.result = StoreScalars(@, value),
                               !.steps = Append(@, "_add_special_passenger_rights")]]
    /\ UNCHANGED <<pc, request, response, carrier_type>>

\* The endpoint has serialised the returned triple into the response; the
\* result object is unreachable from then on.
Release(c) ==
    /\ calls[c].pc = "returned"
    /\ heap' = Reclaim(heap, calls[c].result)
    /\ calls' = [calls EXCEPT ![c] = IdleFrame]
    /\ UNCHANGED <<pc, request, response, carrier_type>>

\* The steps of a call in progress: synchronous code, run to completion.
Evaluate(c) ==
    \/ Gate(c)
    \/ RunHandler(c)
    \/ CarePass(c)
    \/ RebookingRefundPass(c)
    \/ SpecialPassengerPass(c)

NextCalls == \E c \in Callers : Call(c) \/ Evaluate(c) \/ Release(c)

SpecCalls ==
    /\ Init
    /\ [][NextCalls]_vars
    /\ \A c \in Callers : WF_vars(Evaluate(c))

----------------------------------------------------------------------------
(* Vocabulary of the properties.                                            *)

Responded == pc = "responded"

Applicable == Responded /\ response.is_appr_applicable

decision == response.compensation_result

flight_info == request.flight_info

passenger_info == request.passenger_info

disruption_event == request.disruption_event

\* Stored airport codes are upper-case, so registry membership is plain membership.
InRegistry(code) == code \in CANADIAN_AIRPORTS

Range(s) == {s[i] : i \in DOMAIN s}

\* t occurs in s as a block of consecutive entries.
ContainsBlock(s, t) ==
    \E k \in 0..(Len(s) - Len(t)) : \A i \in 1..Len(t) : s[k + i] = t[i]

\* The delay tiers as the specification states them, in cents.
StatedTier(d) ==
    IF d < 3 THEN 0
    ELSE IF d < 6 THEN 40000
    ELSE IF d < 9 THEN 70000
    ELSE 100000

\* Equality of two texts up to letter case.
SameIgnoringCase(a, b) ==
    /\ Len(a) = Len(b)
    /\ \A i \in DOMAIN a : UpperChar(a[i]) = UpperChar(b[i])

EmptyDecision ==
    [ eligible_for_compensation |-> FALSE,
      compensation_amount      |-> 0,
      care_obligations         |-> <<>>,
      rebooking_rights         |-> <<>>,
      refund_rights            |-> <<>>,
      compliance_notes         |-> <<>>,
      alternative_arrangements |-> <<>> ]

----------------------------------------------------------------------------
\* C1: a request whose departure airport is not in the registry is answered
\* applicable = false with a decision that is not eligible, has amount 0 and
\* five empty lists, whatever the other fields are.
C1_OutsideJurisdictionNothingAccrues ==
    (Responded /\ ~InRegistry(flight_info.departure_airport)) =>
        /\ response.is_appr_applicable = FALSE
        /\ decision = EmptyDecision

\* A denied-boarding request of a minor with the disability flag, departing
\* outside the registry, has been answered.
C1_Witness ==
    /\ Responded
    /\ ~InRegistry(flight_info.departure_airport)
    /\ InRegistry(flight_info.arrival_airport)
    /\ disruption_event.disruption_type = "denied_boarding"
    /\ passenger_info.passenger_type = "minor"
    /\ passenger_info.has_disability
    /\ ~response.is_appr_applicable

\* C2: an applicable within-carrier-control delay with a duration d gets
\* exactly the stated tier (0 below 3, 400 on [3,6), 700 on [6,9), 1000 from
\* 9), is eligible exactly when d >= 3, and no longer delay gets less.
C2_DelayTiers ==
    (/\ Applicable
     /\ disruption_event.disruption_type = "delay"
     /\ disruption_event.disruption_category = "within_carrier_control"
     /\ ~IsNone(disruption_event.delay_duration_hours)) =>
        LET d == Val(disruption_event.delay_duration_hours)
            longer(h) == [request EXCEPT !.disruption_event.delay_duration_hours = Some(h)]
        IN  /\ decision.compensation_amount = StatedTier(d)
            /\ decision.eligible_for_compensation <=> d >= 3
            /\ \A h \in d..MaxDelayHours :
                  validate_appr_request(longer(h)).compensation_result.compensation_amount
                      >= decision.compensation_amount

\* A delay of exactly 6 hours within carrier control was paid the second tier.
C2_Witness ==
    /\ Applicable
    /\ disruption_event.disruption_type = "delay"
    /\ disruption_event.disruption_category = "within_carrier_control"
    /\ disruption_event.delay_duration_hours = Some(6)
    /\ decision.eligible_for_compensation
    /\ decision.compensation_amount = 70000

\* C3: an applicable delay or cancellation whose category is outside carrier
\* control or within carrier control for safety is never eligible and has
\* amount 0, for every duration and notice period.
C3_NoCompensationOutsideControlOrSafety ==
    (/\ Applicable
     /\ disruption_event.disruption_type \in {"delay", "cancellation"}
     /\ disruption_event.disruption_category \in
            {"outside_carrier_control", "within_carrier_control_safety"}) =>
        /\ ~decision.eligible_for_compensation
        /\ decision.compensation_amount = 0

\* A safety cancellation without notice and with a 9-hour delay to the
\* alternative flight was answered.
C3_Witness ==
    /\ Applicable
    /\ disruption_event.disruption_type = "cancellation"
    /\ disruption_event.disruption_category = "within_carrier_control_safety"
    /\ disruption_event.delay_duration_hours = Some(9)
    /\ IsNone(disruption_event.cancellation_notice_days)
    /\ ~decision.eligible_for_compensation

\* C4: an applicable cancellation with 14 or more days of notice is never
\* eligible and has amount 0, for every category and duration; with less
\* notice, or none, the decision is the one the same request gets without a
\* notice period, and it is eligible exactly for within_carrier_control.
C4_AdvanceNoticeSafeHarbor ==
    (Applicable /\ disruption_event.disruption_type = "cancellation") =>
        LET notice == disruption_event.cancellation_notice_days
            unnoticed == [request EXCEPT !.disruption_event.cancellation_notice_days = Absent]
        IN  IF ~IsNone(notice) /\ Val(notice) >= 14
            THEN /\ ~decision.eligible_for_compensation
                 /\ decision.compensation_amount = 0
            ELSE /\ response = validate_appr_request(unnoticed)
                 /\ decision.eligible_for_compensation <=>
                        disruption_event.disruption_category = "within_carrier_control"

\* A within-carrier-control cancellation with exactly 14 days of notice and a
\* 9-hour delay to the alternative flight was answered.
C4_Witness ==
    /\ Applicable
    /\ disruption_event.disruption_type = "cancellation"
    /\ disruption_event.disruption_category = "within_carrier_control"
    /\ disruption_event.cancellation_notice_days = Some(14)
    /\ disruption_event.delay_duration_hours = Some(9)
    /\ ~decision.eligible_for_compensation

\* C5: an applicable within-carrier-control cancellation with less than 14
\* days of notice, or none, is eligible and its amount is the stated tier of
\* the delay to the alternative flight, an absent delay counting as 0.
C5_CancellationTiers ==
    (/\ Applicable
     /\ disruption_event.disruption_type = "cancellation"
     /\ disruption_event.disruption_category = "within_carrier_control"
     /\ \/ IsNone(disruption_event.cancellation_notice_days)
        \/ Val(disruption_event.cancellation_notice_days) < 14) =>
        LET d == IF IsNone(disruption_event.delay_duration_hours)
                 THEN 0
                 ELSE Val(disruption_event.delay_duration_hours)
        IN  /\ decision.eligible_for_compensation
            /\ decision.compensation_amount = StatedTier(d)

\* A within-carrier-control cancellation with 13 days of notice and no delay
\* to the alternative flight given was found eligible with amount 0.
C5_Witness ==
    /\ Applicable
    /\ disruption_event.disruption_type = "cancellation"
    /\ disruption_event.disruption_category = "within_carrier_control"
    /\ disruption_event.cancellation_notice_days = Some(13)
    /\ IsNone(disruption_event.delay_duration_hours)
    /\ decision.eligible_for_compensation
    /\ decision.compensation_amount = 0

\* C6: an applicable denied boarding is eligible for every category and
\* duration, with amount 900 when the arrival airport is in the registry and
\* 2400 otherwise.
C6_DeniedBoardingFlatRates ==
    (Applicable /\ disruption_event.disruption_type = "denied_boarding") =>
        /\ decision.eligible_for_compensation
        /\ decision.compensation_amount =
               IF InRegistry(flight_info.arrival_airport) THEN 90000 ELSE 240000

\* A denied boarding outside carrier control on a flight to a foreign airport
\* was paid 2400.
C6_Witness ==
    /\ Applicable
    /\ disruption_event.disruption_type = "denied_boarding"
    /\ disruption_event.disruption_category = "outside_carrier_control"
    /\ ~InRegistry(flight_info.arrival_airport)
    /\ decision.compensation_amount = 240000

TarmacNote == "Tarmac delay of 4+ hours requires mandatory disembarkation"

Max(a, b) == IF a >= b THEN a ELSE b

\* C8: for an applicable request the care pass is keyed on
\* h = max(delay_duration_hours, tarmac_delay_hours, 0), absent counting as 0:
\* communication iff h >= 2, food and drink iff h >= 3, accommodation and
\* transportation iff h >= 8.
C8_CareKeyedOnMax ==
    Applicable =>
        LET delay == disruption_event.delay_duration_hours
            tarmac == disruption_event.tarmac_delay_hours
            h == Max(Max(IF IsNone(delay) THEN 0 ELSE Val(delay),
                         IF IsNone(tarmac) THEN 0 ELSE Val(tarmac)), 0)
            care == Range(decision.care_obligations)
        IN  /\ "Communication: Provide updates on delay status and passenger rights" \in care
                <=> h >= 2
            /\ "Food and drink: Provide meals and refreshments" \in care
                <=> h >= 3
            /\ "Accommodation: Provide overnight accommodation if required" \in care
                <=> h >= 8
            /\ "Transportation: Provide transport between airport and accommodation" \in care
                <=> h >= 8

\* C9: in every decision returned, the amount is at least 0, and a positive
\* amount implies eligibility.
C9_AmountNonNegative ==
    Responded =>
        /\ decision.compensation_amount >= 0
        /\ decision.compensation_amount > 0 => decision.eligible_for_compensation

\* C10: an applicable downgrade is eligible for every category, with amount
\* 75% of the ticket price when the booking class equals "business" or "first"
\* up to letter case, and 50% otherwise.
C10_DowngradeRefund ==
    (Applicable /\ disruption_event.disruption_type = "downgrade") =>
        LET premium ==
                \/ SameIgnoringCase(passenger_info.booking_class,
                                    <<"b","u","s","i","n","e","s","s">>)
                \/ SameIgnoringCase(passenger_info.booking_class,
                                    <<"f","i","r","s","t">>)
        IN  /\ decision.eligible_for_compensation
            /\ decision.compensation_amount =
                   IF premium
                   THEN passenger_info.ticket_price * 75
                   ELSE passenger_info.ticket_price * 50

\* A downgrade from booking class "FIRST" on a 500 ticket, outside carrier
\* control, was refunded 375.
C10_Witness ==
    /\ Applicable
    /\ disruption_event.disruption_type = "downgrade"
    /\ disruption_event.disruption_category = "outside_carrier_control"
    /\ passenger_info.booking_class = <<"F","I","R","S","T">>
    /\ passenger_info.ticket_price = 500
    /\ decision.compensation_amount = 37500

\* C11: rebooking_rights and refund_rights of an applicable request hold
\* exactly the free-rebooking and refund-if-not-travelling entries for a delay
\* or cancellation, exactly the alternative-flight and full-refund entries for
\* a denied boarding, and nothing for the three other kinds.
C11_RebookingRefundByKind ==
    Applicable =>
        LET kind == disruption_event.disruption_type
        IN  /\ kind \in {"delay", "cancellation"} =>
                 /\ decision.rebooking_rights =
                      <<"Right to rebooking on next available flight at no additional cost">>
                 /\ decision.refund_rights =
                      <<"Right to refund if passenger chooses not to travel">>
            /\ kind = "denied_boarding" =>
                 /\ decision.rebooking_rights = <<"Right to alternative flight or rebooking">>
                 /\ decision.refund_rights =
                      <<"Right to full refund if alternative not acceptable">>
            /\ kind \in {"tarmac_delay", "baggage_issue", "downgrade"} =>
                 /\ decision.rebooking_rights = <<>>
                 /\ decision.refund_rights = <<>>

\* A tarmac delay that also carries a 6-hour delay duration was answered
\* without rebooking or refund rights.
C11_Witness ==
    /\ Applicable
    /\ disruption_event.disruption_type = "tarmac_delay"
    /\ disruption_event.tarmac_delay_hours = Some(4)
    /\ disruption_event.delay_duration_hours = Some(6)
    /\ decision.rebooking_rights = <<>>
    /\ decision.refund_rights = <<>>

MinorNote == "Minor passenger - enhanced care obligations apply"

MinorCare == "Special assistance for unaccompanied minors"

DisabilityNote == "Passenger with disability - enhanced protections apply"

DisabilityCare == "Assistance appropriate to passenger's disability"

DisabilityArrangement == "Priority rebooking for passengers with disabilities"

\* C12: for an applicable request the minor note and care entry are present
\* exactly when passenger_type is minor, and the disability note, care entry
\* and priority-rebooking arrangement exactly when has_disability is set or
\* passenger_type is disability; the two sets are independent.
C12_SpecialPassengerSets ==
    Applicable =>
        LET minor == passenger_info.passenger_type = "minor"
            disabled == \/ passenger_info.has_disability
                        \/ passenger_info.passenger_type = "disability"
        IN  /\ MinorNote \in Range(decision.compliance_notes) <=> minor
            /\ MinorCare \in Range(decision.care_obligations) <=> minor
            /\ DisabilityNote \in Range(decision.compliance_notes) <=> disabled
            /\ DisabilityCare \in Range(decision.care_obligations) <=> disabled
            /\ DisabilityArrangement \in Range(decision.alternative_arrangements) <=> disabled

\* A minor with the disability flag received both sets.
C12_Witness ==
    /\ Applicable
    /\ passenger_info.passenger_type = "minor"
    /\ passenger_info.has_disability
    /\ {MinorNote, DisabilityNote} \subseteq Range(decision.compliance_notes)
    /\ {MinorCare, DisabilityCare} \subseteq Range(decision.care_obligations)
    /\ DisabilityArrangement \in Range(decision.alternative_arrangements)

DisembarkationEntry == "Passenger disembarkation required after 4 hours on tarmac"

\* C13: for an applicable tarmac delay, alternative_arrangements contains the
\* mandatory-disembarkation entry exactly when tarmac_delay_hours >= 4,
\* whatever the category, the delay duration and the eligibility are.
C13_DisembarkationFromFourHours ==
    (Applicable /\ disruption_event.disruption_type = "tarmac_delay") =>
        (DisembarkationEntry \in Range(decision.alternative_arrangements)
            <=> /\ ~IsNone(disruption_event.tarmac_delay_hours)
                /\ Val(disruption_event.tarmac_delay_hours) >= 4)

\* A tarmac delay of exactly 4 hours, outside carrier control and without a
\* delay duration, carries the disembarkation entry and is not eligible.
C13_Witness ==
    /\ Applicable
    /\ disruption_event.disruption_type = "tarmac_delay"
    /\ disruption_event.disruption_category = "outside_carrier_control"
    /\ disruption_event.tarmac_delay_hours = Some(4)
    /\ IsNone(disruption_event.delay_duration_hours)
    /\ ~decision.eligible_for_compensation
    /\ DisembarkationEntry \in Range(decision.alternative_arrangements)

NotSpecifiedNote == "Delay duration not specified"

UnderThresholdNote ==
    "Delay of {delay_hours} hours is under 3-hour threshold - no compensation required"

\* C15: for an applicable delay, an absent duration gives a normal return with
\* not eligible, amount 0 and the note "Delay duration not specified"; that
\* note is recorded exactly when the duration is absent, and a duration
\* present with value 0 gets the under-threshold note instead.
C15_AbsentDistinctFromZero ==
    (Applicable /\ disruption_event.disruption_type = "delay") =>
        LET delay == disruption_event.delay_duration_hours
            notes == Range(decision.compliance_notes)
        IN  /\ IsNone(delay) =>
                 /\ ~decision.eligible_for_compensation
                 /\ decision.compensation_amount = 0
            /\ NotSpecifiedNote \in notes <=> IsNone(delay)
            /\ delay = Some(0) => UnderThresholdNote \in notes

\* The three lists of a decision that the category and the notice period must
\* not influence.
RightsLists(d) == <<d.care_obligations, d.rebooking_rights, d.refund_rights>>

C17_BaggageIssue ==
    (Applicable /\ disruption_event.disruption_type = "baggage_issue") =>
        /\ ~decision.eligible_for_compensation
        /\ decision.compensation_amount = 0
        /\ "Baggage issue - carrier must reimburse reasonable interim expenses"
               \in Range(decision.compliance_notes)
        /\ "Reimbursement for essential items while baggage is delayed"
               \in Range(decision.alternative_arrangements)

\* A baggage issue within carrier control with a 9-hour delay duration was
\* answered not eligible.
C17_Witness ==
    /\ Applicable
    /\ disruption_event.disruption_type = "baggage_issue"
    /\ disruption_event.disruption_category = "within_carrier_control"
    /\ disruption_event.delay_duration_hours = Some(9)
    /\ ~decision.eligible_for_compensation
    /\ Len(decision.alternative_arrangements) >= 1

IsPrefix(s, t) == Len(s) <= Len(t) /\ SubSeq(t, 1, Len(s)) = s

\* C19: the three passes only append.  Eligibility and amount of the returned
\* decision are those of the dispatched handler, each list the handler
\* produced is a prefix of the returned list, and eligibility and amount are
\* those of the same request made by a regular passenger without disability.
C19_PassesOnlyAppend ==
    Applicable =>
        LET handled == Dispatch(request)
            regular == [request EXCEPT !.passenger_info.passenger_type = "regular",
                                       !.passenger_info.has_disability = FALSE]
            plain == validate_appr_request(regular).compensation_result
        IN  /\ decision.eligible_for_compensation = handled.eligible_for_compensation
            /\ decision.compensation_amount = handled.compensation_amount
            /\ IsPrefix(handled.care_obligations, decision.care_obligations)
            /\ IsPrefix(handled.rebooking_rights, decision.rebooking_rights)
            /\ IsPrefix(handled.refund_rights, decision.refund_rights)
            /\ IsPrefix(handled.compliance_notes, decision.compliance_notes)
            /\ IsPrefix(handled.alternative_arrangements, decision.alternative_arrangements)
            /\ decision.eligible_for_compensation = plain.eligible_for_compensation
            /\ decision.compensation_amount = plain.compensation_amount

\* A minor with a 5-hour delay within carrier control was paid 400 and the
\* handler's note precedes the minor's note.
C19_Witness ==
    /\ Applicable
    /\ disruption_event.disruption_type = "delay"
    /\ disruption_event.disruption_category = "within_carrier_control"
    /\ disruption_event.delay_duration_hours = Some(5)
    /\ passenger_info.passenger_type = "minor"
    /\ decision.compensation_amount = 40000
    /\ Len(decision.compliance_notes) = 2
    /\ decision.compliance_notes[2] = MinorNote

\* C20: every decision returned for an applicable flight has at least one
\* compliance note.
C20_NotesNeverEmpty ==
    Applicable => Len(decision.compliance_notes) >= 1


----------------------------------------------------------------------------
(* Calls on the shared validator (SpecCalls).                               *)

Returned(c) == calls[c].pc = "returned"

\* The triple validate_appr_request returns to caller c.
ReturnValue(c) ==
    [ is_appr_applicable      |-> calls[c].is_appr_applicable,
      appr_eligibility_reason |-> calls[c].appr_reason,
      compensation_result     |-> Deref(heap, calls[c].result) ]

HoldsResult(c) == calls[c].pc \notin {"idle", "gate", "dispatch"}

\* C14: however the evaluations on the one shared validator follow each other
\* or interleave, what a call returns is what its request gets when it is
\* evaluated alone, it stays so while the other calls run, the validator's
\* own state is never changed, and no list of one call's result is a list of
\* another call's result.
C14_CallsDoNotInteract ==
    /\ carrier_type = "large"
    /\ \A c \in Callers :
          Returned(c) => ReturnValue(c) = validate_appr_request(calls[c].request)
    /\ \A c \in Callers : \A d \in Callers \ {c} :
          (HoldsResult(c) /\ HoldsResult(d))
             => ListsOf(calls[c].result) \cap ListsOf(calls[d].result) = {}

\* Two calls with different applicable requests have both returned, each with
\* its own decision, after running side by side.
C14_Witness ==
    \E c \in Callers : \E d \in Callers \ {c} :
       /\ Returned(c) /\ Returned(d)
       /\ calls[c].is_appr_applicable /\ calls[d].is_appr_applicable
       /\ calls[c].request.disruption_event.disruption_type = "delay"
       /\ calls[d].request.disruption_event.disruption_type = "cancellation"
       /\ calls[c].request.passenger_info.passenger_type = "minor"
       /\ ReturnValue(c).compensation_result # ReturnValue(d).compensation_result
       /\ MinorCare \in Range(ReturnValue(c).compensation_result.care_obligations)
       /\ MinorCare \notin Range(ReturnValue(d).compensation_result.care_obligations)

\* The handler of each disruption kind.
HandlerOfKind ==
    ( "delay"           :> "_handle_delay" ) @@
    ( "cancellation"    :> "_handle_cancellation" ) @@
    ( "denied_boarding" :> "_handle_denied_boarding" ) @@
    ( "tarmac_delay"    :> "_handle_tarmac_delay" ) @@
    ( "downgrade"       :> "_handle_downgrade" ) @@
    ( "baggage_issue"   :> "_handle_baggage_issue" )

\* The steps of a complete evaluation of the request, in order.
PipelineOf(req) ==
    IF InRegistry(req.flight_info.departure_airport)
    THEN << "is_canadian_airport",
            HandlerOfKind[req.disruption_event.disruption_type],
            "_add_care_obligations",
            "_add_rebooking_refund_rights",
            "_add_special_passenger_rights" >>
    ELSE << "is_canadian_airport" >>

StraightLine(c) ==
    calls[c].pc # "idle" =>
       /\ IsPrefix(calls[c].steps, PipelineOf(calls[c].request))
       /\ \A i, j \in DOMAIN calls[c].steps :
             calls[c].steps[i] = calls[c].steps[j] => i = j
       /\ Returned(c) => calls[c].steps = PipelineOf(calls[c].request)

----------------------------------------------------------------------------
(* Requests with every field (SpecEveryField).                              *)

\* The request with every field the rules do not name set to a fixed value:
\* the departure airport replaced by a fixed airport on the same side of the
\* registry, the arrival airport likewise for denied_boarding and by a fixed
\* airport for the other kinds.  Two requests that agree on the named fields
\* (and, for denied_boarding, on the side of the arrival airport) have the
\* same NamedFieldsOnly.
NamedFieldsOnly(req) ==
    [ flight_info |->
        [ flight_number       |-> "WS123",
          departure_airport   |-> IF InRegistry(req.flight_info.departure_airport)
                                  THEN <<"Y","Y","Z">> ELSE <<"L","A","X">>,
          arrival_airport     |-> IF /\ req.disruption_event.disruption_type = "denied_boarding"
                                     /\ ~InRegistry(req.flight_info.arrival_airport)
                                  THEN <<"L","A","X">> ELSE <<"Y","V","R">>,
          scheduled_departure |-> "2024-03-15T08:00",
          actual_departure    |-> Absent,
          scheduled_arrival   |-> "2024-03-15T08:00",
          actual_arrival      |-> Absent ],
      passenger_info |-> [ req.passenger_info EXCEPT !.minor_age = Absent ],
      disruption_event |-> [ req.disruption_event EXCEPT !.reason = Absent,
                                                         !.weather_related = FALSE ] ]

\* What the claim compares: the applicable flag and the decision.
Outcome(resp) ==
    [ is_appr_applicable  |-> resp.is_appr_applicable,
      compensation_result |-> resp.compensation_result ]

\* C21: the applicable flag, the eligibility, the amount and the lists of the
\* decision are those of the request stripped to the fields the rules name:
\* flight number, timestamps, minor_age, reason and weather_related change
\* nothing, the departure airport counts only through its membership of the
\* registry, and the arrival airport counts only for denied_boarding, through
\* its membership.  In particular a request from a registry airport is
\* applicable whatever its arrival airport.
C21_OnlyNamedFieldsMatter ==
    Responded =>
       /\ Outcome(response) = Outcome(validate_appr_request(NamedFieldsOnly(request)))
       /\ response.is_appr_applicable = InRegistry(flight_info.departure_airport)

\* A weather-related 5-hour delay within the carrier's control, from a registry
\* airport to a foreign one, with the unnamed fields filled in, is applicable
\* and compensated in the 3-to-6-hour tier.
C21_Witness ==
    /\ Responded
    /\ disruption_event.disruption_type = "delay"
    /\ disruption_event.disruption_category = "within_carrier_control"
    /\ disruption_event.delay_duration_hours = Some(5)
    /\ disruption_event.weather_related
    /\ disruption_event.reason # Absent
    /\ passenger_info.minor_age # Absent
    /\ flight_info.flight_number = "AC456"
    /\ flight_info.actual_arrival # Absent
    /\ flight_info.departure_airport = <<"Y","U","L">>
    /\ flight_info.arrival_airport = <<"L","A","X">>
    /\ response.is_appr_applicable
    /\ decision.eligible_for_compensation
    /\ decision.compensation_amount = 40000
====
